---- MODULE Spec2Model ----
(***************************************************************************)
(* Model of the DeFi liquidity simulation: the constant-product pool of    *)
(* amms.py, the stepper of environment.py and the tabular policy of        *)
(* rl_utils.py.                                                            *)
(*                                                                         *)
(* Python floats are modelled as exact decimal-scaled rationals            *)
(*     [n, d, e]  standing for  n / (d * 10^e)                             *)
(* kept in a canonical form (d > 0, n coprime to d * 10^e, 10 not dividing *)
(* d, e >= 0), so that record equality is numeric equality and so          *)
(* that both 1200000 and the pool's threshold 1e-12 are representable.     *)
(* Rounding of IEEE doubles is not modelled: every formula below is about  *)
(* the arithmetic the code writes down, carried out exactly.               *)
(*                                                                         *)
(* An operator of several steps binds its arguments through singleton      *)
(* sets (CHOOSE v \in {body : x \in {x_}} : TRUE), so that each argument   *)
(* is evaluated once however often the body reads it.                      *)
(***************************************************************************)
EXTENDS Integers, Sequences, FiniteSets, TLC

----------------------------------------------------------------------------
(* Exact arithmetic standing for Python's float operators *)

Abs(i) == IF i < 0 THEN -i ELSE i

RECURSIVE GCD(_, _)
GCD(a_, b_) ==
    CHOOSE v \in {(
        IF b = 0 THEN a ELSE GCD(b, a % b)
        ) : a \in {a_}, b \in {b_}} : TRUE

RECURSIVE Pow10(_)
Pow10(k) == IF k <= 0 THEN 1 ELSE 10 * Pow10(k - 1)

\* cancel the factors 2 and 5 that the numerator shares with the scale, then
\* move the factors ten of the denominator into the scale
RECURSIVE Reduce(_, _, _)
Reduce(p_, q_, e_) ==
    CHOOSE v \in {(
        IF e > 0 /\ p % 10 = 0 THEN Reduce(p \div 10, q, e - 1)
        ELSE IF e > 0 /\ p % 2 = 0 /\ q % 2 # 0 THEN Reduce(p \div 2, q * 5, e - 1)
        ELSE IF e > 0 /\ p % 5 = 0 /\ q % 5 # 0 THEN Reduce(p \div 5, q * 2, e - 1)
        ELSE IF q % 10 = 0 THEN Reduce(p, q \div 10, e + 1)
        ELSE IF e < 0 THEN Reduce(p * 10, q, e + 1)
        ELSE [n |-> p, d |-> q, e |-> e]
        ) : p \in {p_}, q \in {q_}, e \in {e_}} : TRUE

\* the canonical form of p / (q * 10^e), q # 0
Make(p_, q_, e_) ==
    CHOOSE v \in {(
        IF p = 0 THEN [n |-> 0, d |-> 1, e |-> 0]
        ELSE LET s == IF q < 0 THEN -1 ELSE 1
                 g == GCD(Abs(p), Abs(q))
                 r == Reduce((s * p) \div g, (s * q) \div g, e)
                 h == GCD(Abs(r.n), r.d)
             IN  [n |-> r.n \div h, d |-> r.d \div h, e |-> r.e]
        ) : p \in {p_}, q \in {q_}, e \in {e_}} : TRUE

Num(i) == [n |-> i, d |-> 1, e |-> 0]
Zero == Num(0)
One == Num(1)

Neg(x) == [x EXCEPT !.n = -x.n]

Mul(x_, y_) ==
    CHOOSE v \in {(
        LET g1 == GCD(Abs(x.n), y.d)
            g2 == GCD(Abs(y.n), x.d)
            s1 == Reduce(x.n \div g1, 1, x.e + y.e)
            s2 == Reduce(y.n \div g2, 1, s1.e)
        IN  Make(s1.n * s2.n, (x.d \div g2) * (y.d \div g1) * s1.d * s2.d, s2.e)
        ) : x \in {x_}, y \in {y_}} : TRUE

Div(x_, y_) ==
    CHOOSE v \in {(
        LET g1 == GCD(Abs(x.n), Abs(y.n))
            g2 == GCD(x.d, y.d)
        IN  Make((x.n \div g1) * (y.d \div g2), (x.d \div g2) * (y.n \div g1), x.e - y.e)
        ) : x \in {x_}, y \in {y_}} : TRUE

Add(x_, y_) ==
    CHOOSE v \in {(
        IF x.n = 0 THEN y ELSE IF y.n = 0 THEN x ELSE
        LET E == IF x.e > y.e THEN x.e ELSE y.e
            g == GCD(x.d, y.d)
            a == x.n * Pow10(E - x.e) * (y.d \div g)
            b == y.n * Pow10(E - y.e) * (x.d \div g)
        IN  Make(a + b, (x.d \div g) * y.d, E)
        ) : x \in {x_}, y \in {y_}} : TRUE

Sub(x, y) == Add(x, Neg(y))

\* x < y, by cross products; the power of ten of the scale gap is divided
\* out rather than multiplied in, and a gap of ten or more decimal digits is
\* decided by the signs, since both cross products are below 2^31
Lt(x_, y_) ==
    CHOOSE v \in {(
        LET l == x.n * y.d
            r == y.n * x.d
            P == Pow10(Abs(y.e - x.e))
        IN  IF y.e - x.e >= 10 THEN l < 0 \/ (l = 0 /\ r > 0)
            ELSE IF x.e - y.e >= 10 THEN r > 0 \/ (r = 0 /\ l < 0)
            ELSE IF y.e >= x.e THEN l < (r + (P - 1)) \div P
            ELSE r > l \div P
        ) : x \in {x_}, y \in {y_}} : TRUE

Le(x, y) == ~Lt(y, x)
Min(x_, y_) ==
    CHOOSE v \in {(
        IF Lt(y, x) THEN y ELSE x
        ) : x \in {x_}, y \in {y_}} : TRUE
AbsR(x_) ==
    CHOOSE v \in {(
        IF x.n < 0 THEN Neg(x) ELSE x
        ) : x \in {x_}} : TRUE

----------------------------------------------------------------------------
(* Program constants *)

\* amms.py: the 1e-12 threshold below which a reserve counts as empty
EPSILON == Make(1, 1, 12)
\* amms.py remove_liquidity: at most 99.9% of the pool is removed
MAX_FRACTION == Make(999, 1000, 0)
\* amms.py: default fee_rate=0.003
DEFAULT_FEE == Make(3, 1000, 0)

None == "None"

----------------------------------------------------------------------------
(* Bounds of the model *)

\* calls made on the pool in one run of the pool specification
MaxCalls == 3
\* the pool is operated on while the numerators and denominators of its
\* numbers stay below this
MaxNum == 20000
\* additions are carried out between numbers at most this many decimal
\* digits apart in scale
MaxGap == 3

\* run_simulation calls and resets made on one environment
MaxRuns == 2

VARIABLES
    amm,                  \* the pool: reserveA, reserveB, K, liquidity_shares, fee_rate
    call,                 \* the last call made, the state before it and what it returned
    ncalls,               \* calls made on the pool so far
    agents,               \* MarketEnvironment.agents: the names, in registration order
    script,               \* what the i-th stub agent returns at each step
    reference_prices,     \* MarketEnvironment.reference_prices
    current_step,         \* MarketEnvironment.current_step
    rewards,              \* MarketEnvironment.rewards: name -> cumulative reward
    total_volume_tokenA,  \* MarketEnvironment.total_volume_tokenA
    total_volume_tokenB,  \* MarketEnvironment.total_volume_tokenB
    running,              \* inside run_simulation: <<the pool it started from>>, else <<>>
    runs,                 \* the run_simulation calls completed, in order: starting pool and final ledger
    nresets,              \* reset calls so far
    policy,               \* the SimpleQPolicy: q_table, last_state, last_action
    history               \* the calls made on the policy and the policy each left

envVars == <<agents, script, reference_prices, current_step, rewards,
             total_volume_tokenA, total_volume_tokenB, running, runs, nresets>>
polVars == <<policy, history>>
vars == <<amm, call, ncalls, agents, script, reference_prices, current_step, rewards,
          total_volume_tokenA, total_volume_tokenB, running, runs, nresets,
          policy, history>>

----------------------------------------------------------------------------
(* amms.py: ConstantProductAMM *)

NewAMM(fee) ==
    [reserveA |-> Zero, reserveB |-> Zero, K |-> Zero,
     liquidity_shares |-> Zero, fee_rate |-> fee]

\* the test of add_liquidity and swap: either reserve is near zero
Degenerate_onlyA(p_) ==
    CHOOSE v \in {(
        Lt(p.reserveA, EPSILON)
        ) : p \in {p_}} : TRUE
Degenerate(p_) ==
    CHOOSE v \in {(
        Lt(p.reserveA, EPSILON) \/ Lt(p.reserveB, EPSILON)
        ) : p \in {p_}} : TRUE

add_liquidity(p_, amount_tokenA_, amount_tokenB_) ==
    CHOOSE v \in {(
        IF Degenerate(p)
        THEN [p EXCEPT !.reserveA = amount_tokenA,
                       !.reserveB = amount_tokenB,
                       !.K = Mul(amount_tokenA, amount_tokenB),
                       !.liquidity_shares =
                           Add(p.liquidity_shares, Add(amount_tokenA, amount_tokenB))]
        ELSE LET newA == Add(p.reserveA, amount_tokenA)
                 newB == Add(p.reserveB, amount_tokenB)
                 denominator == Sub(newA, amount_tokenA)
                 shares_minted ==
                     IF Lt(AbsR(denominator), EPSILON)
                     THEN Add(amount_tokenA, amount_tokenB)
                     ELSE Div(Mul(p.liquidity_shares, amount_tokenA), denominator)
             IN  [p EXCEPT !.reserveA = newA,
                           !.reserveB = newB,
                           !.K = Mul(newA, newB),
                           !.liquidity_shares = Add(p.liquidity_shares, shares_minted)]
        ) : p \in {p_}, amount_tokenA \in {amount_tokenA_}, amount_tokenB \in {amount_tokenB_}} : TRUE

\* remove_liquidity: fraction = min(fraction, 0.999)
clamp_fraction_unclamped(fraction) == fraction
clamp_fraction(fraction) == Min(fraction, MAX_FRACTION)

\* the pool after remove_liquidity(fraction) and the value returned
remove_liquidity_stale_K(p_, fraction0_) ==
    CHOOSE v \in {(
        LET fraction == clamp_fraction(fraction0)
        IN  IF Lt(fraction, Zero)
            THEN [pool |-> p, ret |-> None]
            ELSE LET amountA_out == Mul(p.reserveA, fraction)
                     amountB_out == Mul(p.reserveB, fraction)
                     newA == Sub(p.reserveA, amountA_out)
                     newB == Sub(p.reserveB, amountB_out)
                     shares_to_burn == Mul(p.liquidity_shares, fraction)
                 IN  [pool |-> [p EXCEPT !.reserveA = newA,
                                         !.reserveB = newB,
                                         !.liquidity_shares =
                                             Sub(p.liquidity_shares, shares_to_burn)],
                      ret |-> <<amountA_out, amountB_out>>]
        ) : p \in {p_}, fraction0 \in {fraction0_}} : TRUE
remove_liquidity_negative_taken(p_, fraction0_) ==
    CHOOSE v \in {(
        LET fraction == clamp_fraction(fraction0)
            amountA_out == Mul(p.reserveA, fraction)
            amountB_out == Mul(p.reserveB, fraction)
            newA == Sub(p.reserveA, amountA_out)
            newB == Sub(p.reserveB, amountB_out)
            shares_to_burn == Mul(p.liquidity_shares, fraction)
        IN  [pool |-> [p EXCEPT !.reserveA = newA,
                                !.reserveB = newB,
                                !.liquidity_shares =
                                    Sub(p.liquidity_shares, shares_to_burn),
                                !.K = Mul(newA, newB)],
             ret |-> <<amountA_out, amountB_out>>]
        ) : p \in {p_}, fraction0 \in {fraction0_}} : TRUE
remove_liquidity(p_, fraction0_) ==
    CHOOSE v \in {(
        LET fraction == clamp_fraction(fraction0)
        IN  IF Lt(fraction, Zero)
            THEN [pool |-> p, ret |-> None]
            ELSE LET amountA_out == Mul(p.reserveA, fraction)
                     amountB_out == Mul(p.reserveB, fraction)
                     newA == Sub(p.reserveA, amountA_out)
                     newB == Sub(p.reserveB, amountB_out)
                     shares_to_burn == Mul(p.liquidity_shares, fraction)
                 IN  [pool |-> [p EXCEPT !.reserveA = newA,
                                         !.reserveB = newB,
                                         !.liquidity_shares =
                                             Sub(p.liquidity_shares, shares_to_burn),
                                         !.K = Mul(newA, newB)],
                      ret |-> <<amountA_out, amountB_out>>]
        ) : p \in {p_}, fraction0 \in {fraction0_}} : TRUE

\* the integer part of x (Python's floor division), for |x| within range
Floor_rounding_up(x_) ==
    CHOOSE v \in {(
        IF x.e > 8 THEN (IF x.n > 0 THEN One ELSE Zero)
                ELSE Num(-((-x.n) \div (x.d * Pow10(x.e))))
        ) : x \in {x_}} : TRUE
Floor(x_) ==
    CHOOSE v \in {(
        IF x.e > 8 THEN (IF x.n < 0 THEN Num(-1) ELSE Zero)
                ELSE Num(x.n \div (x.d * Pow10(x.e)))
        ) : x \in {x_}} : TRUE

\* swap: amount_in_after_fee = amount_in * (1 - fee_rate)
amount_in_after_fee_nofee(p_, amount_in_) == amount_in_
amount_in_after_fee(p_, amount_in_) ==
    CHOOSE v \in {(
        Mul(amount_in, Sub(One, p.fee_rate))
        ) : p \in {p_}, amount_in \in {amount_in_}} : TRUE

\* swap: x * y = k => x = K / y, guarded against a zero divisor
other_reserve_floordiv(K_, new_reserve_) ==
    CHOOSE v \in {(
        IF new_reserve # Zero THEN Floor(Div(K, new_reserve)) ELSE Zero
        ) : K \in {K_}, new_reserve \in {new_reserve_}} : TRUE
other_reserve(K_, new_reserve_) ==
    CHOOSE v \in {(
        IF new_reserve # Zero THEN Div(K, new_reserve) ELSE Zero
        ) : K \in {K_}, new_reserve \in {new_reserve_}} : TRUE

\* the pool after swap(amount_in, direction) and the amount returned
swap(p_, amount_in_, direction_) ==
    CHOOSE v \in {(
        IF Le(amount_in, Zero) THEN [pool |-> p, ret |-> Zero]
        ELSE IF Degenerate(p) THEN [pool |-> p, ret |-> Zero]
        ELSE IF direction = "buy"
             THEN LET new_reserveB == Add(p.reserveB, amount_in_after_fee(p, amount_in))
                      new_reserveA == other_reserve(p.K, new_reserveB)
                      amount_out == Sub(p.reserveA, new_reserveA)
                  IN  [pool |-> [p EXCEPT !.reserveB = new_reserveB,
                                          !.reserveA = new_reserveA,
                                          !.K = Mul(new_reserveA, new_reserveB)],
                       ret |-> IF Lt(amount_out, Zero) THEN Zero ELSE amount_out]
             ELSE LET new_reserveA == Add(p.reserveA, amount_in_after_fee(p, amount_in))
                      new_reserveB == other_reserve(p.K, new_reserveA)
                      amount_out == Sub(p.reserveB, new_reserveB)
                  IN  [pool |-> [p EXCEPT !.reserveA = new_reserveA,
                                          !.reserveB = new_reserveB,
                                          !.K = Mul(new_reserveA, new_reserveB)],
                       ret |-> IF Lt(amount_out, Zero) THEN Zero ELSE amount_out]
        ) : p \in {p_}, amount_in \in {amount_in_}, direction \in {direction_}} : TRUE

get_price_product(p_) ==
    CHOOSE v \in {(
        IF Lt(p.reserveA, EPSILON) THEN Zero ELSE Mul(p.reserveB, p.reserveA)
        ) : p \in {p_}} : TRUE
get_price(p_) ==
    CHOOSE v \in {(
        IF Lt(p.reserveA, EPSILON) THEN Zero ELSE Div(p.reserveB, p.reserveA)
        ) : p \in {p_}} : TRUE

----------------------------------------------------------------------------
(* Inputs of the pool specification *)

FeeRates == {Zero, DEFAULT_FEE, Make(1, 2, 0)}
AmountsA == {Zero, Make(5, 1, 13), Num(200), Num(1000)}
AmountsB == {Zero, Make(1, 1, 12), Num(300), Num(1200)}
SwapAmounts == {Num(-5), Zero, Num(100)}
Directions == {"buy", "sell"}
Fractions == {Make(-1, 2, 0), Zero, Make(1, 2, 0), One, Make(3, 2, 0)}

\* x + y stays within the model's number range
Near(x_, y_) ==
    CHOOSE v \in {(
        \/ x.n = 0
        \/ y.n = 0
        \/ /\ Abs(x.e - y.e) <= MaxGap
           /\ Abs(x.n) * Pow10(y.e - x.e) < MaxNum \div y.d
           /\ Abs(y.n) * Pow10(x.e - y.e) < MaxNum \div x.d
        ) : x \in {x_}, y \in {y_}} : TRUE

\* the pool's numbers are within the model's number range
Small(x_) ==
    CHOOSE v \in {(
        Abs(x.n) < MaxNum /\ x.d < MaxNum
        ) : x \in {x_}} : TRUE
Fits(p_) ==
    CHOOSE v \in {(
        Small(p.reserveA) /\ Small(p.reserveB) /\ Small(p.liquidity_shares)
        ) : p \in {p_}} : TRUE

NoCall == [op |-> "none"]

\* no policy is consulted
NoPolicy == policy = None /\ history = <<>>

\* no environment is built around the pool
NoEnv ==
    /\ agents = <<>>
    /\ script = <<>>
    /\ reference_prices = <<>>
    /\ current_step = 0
    /\ rewards = <<>>
    /\ total_volume_tokenA = Zero
    /\ total_volume_tokenB = Zero
    /\ running = <<>>
    /\ runs = <<>>
    /\ nresets = 0

InitAMM ==
    /\ \E fee \in FeeRates : amm = NewAMM(fee)
    /\ call = NoCall
    /\ ncalls = 0
    /\ NoEnv
    /\ NoPolicy

AddLiquidity(a, b) ==
    /\ ncalls < MaxCalls
    /\ Fits(amm)
    /\ Near(a, b)
    /\ Near(amm.liquidity_shares, Add(a, b))
    /\ Degenerate(amm) \/ (Near(amm.reserveA, a) /\ Near(amm.reserveB, b))
    /\ amm' = add_liquidity(amm, a, b)
    /\ call' = [op |-> "add_liquidity", amount_tokenA |-> a, amount_tokenB |-> b,
                pre |-> amm, ret |-> TRUE]
    /\ ncalls' = ncalls + 1
    /\ UNCHANGED <<envVars, polVars>>

RemoveLiquidity(f) ==
    /\ ncalls < MaxCalls
    /\ Fits(amm)
    /\ LET r == remove_liquidity(amm, f)
       IN  /\ amm' = r.pool
           /\ call' = [op |-> "remove_liquidity", fraction |-> f,
                       pre |-> amm, ret |-> r.ret]
    /\ ncalls' = ncalls + 1
    /\ UNCHANGED <<envVars, polVars>>

Swap(x, dir) ==
    /\ ncalls < MaxCalls
    /\ Fits(amm)
    /\ \/ Le(x, Zero)
       \/ Degenerate(amm)
       \/ /\ Near(amm.reserveA, amount_in_after_fee(amm, x))
          /\ Near(amm.reserveB, amount_in_after_fee(amm, x))
    /\ LET r == swap(amm, x, dir)
       IN  /\ amm' = r.pool
           /\ call' = [op |-> "swap", amount_in |-> x, direction |-> dir,
                       pre |-> amm, ret |-> r.ret]
    /\ ncalls' = ncalls + 1
    /\ UNCHANGED <<envVars, polVars>>

GetPrice ==
    /\ ncalls < MaxCalls
    /\ call' = [op |-> "get_price", pre |-> amm, ret |-> get_price(amm)]
    /\ ncalls' = ncalls + 1
    /\ UNCHANGED <<amm, envVars, polVars>>

NextAMM ==
    \/ \E a \in AmountsA, b \in AmountsB : AddLiquidity(a, b)
    \/ \E f \in Fractions : RemoveLiquidity(f)
    \/ \E x \in SwapAmounts, dir \in Directions : Swap(x, dir)
    \/ GetPrice

SpecAMM == InitAMM /\ [][NextAMM]_vars

----------------------------------------------------------------------------
(* environment.py: MarketEnvironment, driven by scripted stub agents *)

\* a dict read: action["key"] raises KeyError when the key is missing
Has(action, key) == key \in DOMAIN action

\* rewards[name] += delta
Credit_overwriting(ledger_, name_, delta_) == [ledger_ EXCEPT ![name_] = delta_]
Credit(ledger_, name_, delta_) ==
    CHOOSE v \in {(
        [ledger EXCEPT ![name] = Add(ledger[name], delta)]
        ) : ledger \in {ledger_}, name \in {name_}, delta \in {delta_}} : TRUE

\* step: if amount_in > 0
trade_amount_ok(amount_in) == Lt(Zero, amount_in)

\* step: if (amountA > 0 and amountB > 0)
add_amounts_ok_either(amountA, amountB) == Lt(Zero, amountA) \/ Lt(Zero, amountB)
add_amounts_ok(amountA, amountB) == Lt(Zero, amountA) /\ Lt(Zero, amountB)

\* step: reward of a removal, outA * current_price + outB
removal_reward_unpriced(outA_, outB_, current_price_) == Add(outA_, outB_)
removal_reward(outA_, outB_, current_price_) ==
    CHOOSE v \in {(
        Add(Mul(outA, current_price), outB)
        ) : outA \in {outA_}, outB \in {outB_}, current_price \in {current_price_}} : TRUE

\* the body of step's second loop for one agent: st holds the pool, the
\* ledger and the volumes, and raised tells that a KeyError ended the call
apply_action(st_, name_, action_, current_price_) ==
    CHOOSE v \in {(
        IF ~Has(action, "type") THEN [st EXCEPT !.raised = TRUE]
        ELSE IF action.type = "trade"
        THEN LET direction == IF Has(action, "direction") THEN action.direction ELSE "buy"
                 amount_in == IF Has(action, "amount") THEN action.amount ELSE Zero
             IN  IF ~trade_amount_ok(amount_in) THEN st
                 ELSE CHOOSE w \in {(
                          IF direction = "buy"
                          THEN [st EXCEPT
                                  !.amm = r.pool,
                                  !.rewards = Credit(st.rewards, name,
                                      Sub(Mul(r.ret, current_price), amount_in)),
                                  !.total_volume_tokenB = Add(@, amount_in)]
                          ELSE [st EXCEPT
                                  !.amm = r.pool,
                                  !.rewards = Credit(st.rewards, name,
                                      Sub(r.ret, Mul(amount_in, current_price))),
                                  !.total_volume_tokenA = Add(@, amount_in)]
                          ) : r \in {swap(st.amm, amount_in, direction)}} : TRUE
        ELSE IF action.type = "add_liquidity"
        THEN IF ~(Has(action, "amount_tokenA") /\ Has(action, "amount_tokenB"))
             THEN [st EXCEPT !.raised = TRUE]
             ELSE IF add_amounts_ok(action.amount_tokenA, action.amount_tokenB)
                  THEN [st EXCEPT !.amm = add_liquidity(st.amm, action.amount_tokenA,
                                                        action.amount_tokenB)]
                  ELSE st
        ELSE IF action.type = "remove_liquidity"
        THEN IF ~(Has(action, "amount_tokenA") /\ Has(action, "amount_tokenB"))
             THEN [st EXCEPT !.raised = TRUE]
             ELSE CHOOSE w \in {(
                      IF result.ret = None THEN st
                      ELSE [st EXCEPT
                              !.amm = result.pool,
                              !.rewards = Credit(st.rewards, name,
                                  removal_reward(result.ret[1], result.ret[2],
                                                 current_price))]
                      ) : result \in {remove_liquidity(st.amm,
                              Min(action.amount_tokenA, action.amount_tokenB))}} : TRUE
        ELSE st
        ) : st \in {st_}, name \in {name_}, action \in {action_}, current_price \in {current_price_}} : TRUE

\* the stub agent i: its scripted action for the step it is shown
act(i, env_state) == script[i][env_state.step + 1]

\* step's first loop: actions[agent.name] = agent.act(env_state), in order
RECURSIVE collect(_, _, _)
collect(actions_, i_, env_state_) ==
    CHOOSE v \in {(
        IF i > Len(agents) THEN actions
        ELSE collect([n \in DOMAIN actions \cup {agents[i]} |->
                         IF n = agents[i] THEN act(i, env_state) ELSE actions[n]],
                     i + 1, env_state)
        ) : actions \in {actions_}, i \in {i_}, env_state \in {env_state_}} : TRUE

\* step's second loop from agent i on; log keeps, per agent, the action
\* applied and the state before and after it
RECURSIVE execute(_, _, _, _, _)
execute(st_, log_, i_, actions_, current_price_) ==
    CHOOSE v \in {(
        IF i > Len(agents) \/ st.raised THEN [st |-> st, log |-> log]
        ELSE CHOOSE w \in {
                 execute(next,
                         Append(log, [name |-> agents[i], action |-> actions[agents[i]],
                                      pre |-> st, post |-> next]),
                         i + 1, actions, current_price)
                 : next \in {apply_action(st, agents[i], actions[agents[i]],
                                          current_price)}} : TRUE
        ) : st \in {st_}, log \in {log_}, i \in {i_}, actions \in {actions_}, current_price \in {current_price_}} : TRUE

EnvState ==
    [amm |-> amm, rewards |-> rewards,
     total_volume_tokenA |-> total_volume_tokenA,
     total_volume_tokenB |-> total_volume_tokenB,
     raised |-> FALSE]

num_steps == Len(reference_prices)

\* reset(): the ledger with every agent's reward zeroed
reset_rewards_kept == rewards
reset_rewards == [n \in DOMAIN rewards |-> Zero]

\* reset()
Reset ==
    /\ running = <<>>
    /\ nresets < MaxRuns
    /\ current_step' = 0
    /\ rewards' = reset_rewards
    /\ total_volume_tokenA' = Zero
    /\ total_volume_tokenB' = Zero
    /\ nresets' = nresets + 1
    /\ call' = [op |-> "reset", step |-> current_step, pre |-> EnvState]
    /\ UNCHANGED <<amm, ncalls, agents, script, reference_prices, running, runs, polVars>>

\* run_simulation(): reset(), then the loop calls step() until it returns False
RunSimulation ==
    /\ running = <<>>
    /\ nresets < MaxRuns
    /\ current_step' = 0
    /\ rewards' = reset_rewards
    /\ total_volume_tokenA' = Zero
    /\ total_volume_tokenB' = Zero
    /\ nresets' = nresets + 1
    /\ running' = <<amm>>
    /\ call' = [op |-> "run_simulation", step |-> current_step, pre |-> EnvState]
    /\ UNCHANGED <<amm, ncalls, agents, script, reference_prices, runs, polVars>>

\* step() once current_step >= num_steps: returns False; inside
\* run_simulation this ends the loop and the call
StepDone ==
    /\ current_step >= num_steps
    /\ call' = [op |-> "step", step |-> current_step, pre |-> EnvState,
                running |-> running, log |-> <<>>, ret |-> "False"]
    /\ IF running = <<>>
       THEN UNCHANGED <<running, runs>>
       ELSE /\ running' = <<>>
            /\ runs' = Append(runs, [start |-> running[1], ledger |-> rewards])
    /\ UNCHANGED <<amm, ncalls, agents, script, reference_prices, current_step,
                   rewards, total_volume_tokenA, total_volume_tokenB, nresets, polVars>>

\* step: env_state, the observation handed to every agent of the tick
observe_unpriced(p, current_price, step) ==
    [amm_price |-> Zero, reference_price |-> current_price, step |-> step]
observe(p, current_price, step) ==
    [amm_price |-> get_price(p), reference_price |-> current_price, step |-> step]

\* step() on a tick: every agent is asked, the actions are applied in order,
\* the step counter advances; a KeyError leaves what was applied before it
StepTick ==
    /\ current_step < num_steps
    /\ Fits(amm)
    /\ \E env_state \in {observe(amm, reference_prices[current_step + 1],
                                   current_step)} :
       \E done \in {execute(EnvState, <<>>, 1, collect(<<>>, 1, env_state),
                            env_state.reference_price)} :
           /\ amm' = done.st.amm
           /\ rewards' = done.st.rewards
           /\ total_volume_tokenA' = done.st.total_volume_tokenA
           /\ total_volume_tokenB' = done.st.total_volume_tokenB
           /\ current_step' = IF done.st.raised THEN current_step ELSE current_step + 1
           /\ running' = IF done.st.raised THEN <<>> ELSE running
           /\ call' = [op |-> "step", step |-> current_step, pre |-> EnvState,
                       running |-> running, env_state |-> env_state, log |-> done.log,
                       ret |-> IF done.st.raised THEN "KeyError" ELSE "True"]
    /\ UNCHANGED <<ncalls, agents, script, reference_prices, runs, nresets, polVars>>

\* what the stub agents may return: the first agent of a roster follows any
\* script over the liquidity menu, the second repeats one trading action
ActNone == [type |-> "none", amount_tokenA |-> Zero, amount_tokenB |-> Zero]
ActAdd(a, b) == [type |-> "add_liquidity", amount_tokenA |-> a, amount_tokenB |-> b]
ActRemove(fa, fb) == [type |-> "remove_liquidity", amount_tokenA |-> fa, amount_tokenB |-> fb]
ActTrade(x, dir) == [type |-> "trade", amount |-> x, direction |-> dir]

LiquidityMenu ==
    {ActNone,
     ActAdd(Num(200), Num(300)),
     ActAdd(Zero, Num(300)),
     ActRemove(Make(1, 2, 0), Make(1, 2, 0)),
     ActRemove(Make(-1, 2, 0), Make(1, 2, 0)),
     [type |-> "add_liquidity", amount |-> Num(10)]}

TradingMenu ==
    {ActTrade(Num(100), "buy"),
     ActTrade(Num(100), "sell"),
     ActTrade(Zero, "buy"),
     ActTrade(Num(-5), "sell"),
     [type |-> "hold", amount |-> Zero]}

Scripts(i, n) ==
    IF i = 1 THEN [1..n -> LiquidityMenu]
    ELSE {[t \in 1..n |-> a] : a \in TradingMenu}

Rosters == {<<"lp">>, <<"lp", "trader">>, <<"bot", "bot">>}
PriceSeries == {<<Make(3, 2, 0)>>, <<Make(3, 2, 0), One>>}
\* a fee whose swaps keep the fractions of the reserves and of the ledger short
EnvFeeRates == {Make(1, 2, 0)}

\* a pool as main.py builds it, or one seeded with a first deposit
StartPools(fee) == {NewAMM(fee), add_liquidity(NewAMM(fee), Num(200), Num(300))}

\* MarketEnvironment.__init__ on a pool, a roster and a price series
InitEnv ==
    /\ \E fee \in EnvFeeRates : amm \in StartPools(fee)
    /\ agents \in Rosters
    /\ reference_prices \in PriceSeries
    /\ script \in {sc \in [1..Len(agents) ->
                             UNION {Scripts(i, Len(reference_prices)) : i \in 1..2}] :
                      \A i \in 1..Len(agents) : sc[i] \in Scripts(i, Len(reference_prices))}
    /\ current_step = 0
    /\ rewards = [n \in {agents[i] : i \in 1..Len(agents)} |-> Zero]
    /\ total_volume_tokenA = Zero
    /\ total_volume_tokenB = Zero
    /\ running = <<>>
    /\ runs = <<>>
    /\ nresets = 0
    /\ call = NoCall
    /\ ncalls = 0
    /\ NoPolicy

NextEnv ==
    \/ Reset
    \/ RunSimulation
    \/ StepDone
    \/ StepTick

SpecEnv == InitEnv /\ [][NextEnv]_vars

----------------------------------------------------------------------------
(* rl_utils.py: SimpleQPolicy *)

\* SimpleQPolicy(num_price_buckets, num_time_buckets): the table the model builds
num_price_buckets == 2
num_time_buckets == 2

\* calls made on one policy
MaxPolicyCalls == 5

alpha == Make(1, 10, 0)
gamma == Make(95, 100, 0)
bucket_size == Make(2, 100, 0)
ActionIndices == 0..2

\* last_state and last_action: None is the empty tuple, a stored action a is <<a>>
Empty == <<>>

\* __init__
SimpleQPolicy ==
    [q_table |-> [s \in (0..(num_price_buckets - 1)) \X (0..(num_time_buckets - 1)) \X ActionIndices
                     |-> Zero],
     last_state |-> Empty,
     last_action |-> Empty]

\* _discretize_state
discretize_state(env_state_) ==
    CHOOSE v \in {(
        LET raw == Floor(Div(Add(price_diff, Mul(Num(num_price_buckets), bucket_size)),
                             bucket_size)).n
            capped == IF raw < num_price_buckets - 1 THEN raw ELSE num_price_buckets - 1
            bucket == IF capped > 0 THEN capped ELSE 0
        IN  <<bucket, env_state_.step % num_time_buckets>>
        ) : price_diff \in {Sub(env_state_.reference_price, env_state_.amm_price)}} : TRUE

\* np.max(q_table[s[0], s[1], :])
max_q_first_entry(q, s) == q[s[1], s[2], 0]
max_q(q, s) ==
    CHOOSE m \in {q[s[1], s[2], a] : a \in ActionIndices} :
        \A a \in ActionIndices : Le(q[s[1], s[2], a], m)

\* np.argmax(q_table[s[0], s[1], :]): the first index of the maximum
argmax_q(q, s) ==
    CHOOSE a \in ActionIndices :
        /\ q[s[1], s[2], a] = max_q(q, s)
        /\ \A b \in ActionIndices : b < a => q[s[1], s[2], b] # max_q(q, s)

\* select_action: the action dictionary returned for index a
action_of(a) ==
    IF a = 0 THEN ActNone
    ELSE IF a = 1 THEN ActAdd(Num(10), Num(10))
    ELSE ActRemove(Make(3, 10, 0), Make(3, 10, 0))

\* select_action; explore is the outcome of np.random.rand() < epsilon and
\* r the draw of np.random.randint(0, 3)
select_action_keeping_first(pol, env_state, explore, r) ==
    LET s == discretize_state(env_state)
        a == IF explore THEN r ELSE argmax_q(pol.q_table, s)
    IN  [policy |-> IF pol.last_state = Empty
                    THEN [pol EXCEPT !.last_state = s, !.last_action = <<a>>]
                    ELSE pol,
         ret |-> action_of(a)]
select_action_marking(pol, env_state, explore, r) ==
    LET s == discretize_state(env_state)
        a == IF explore THEN r ELSE argmax_q(pol.q_table, s)
    IN  [policy |-> [pol EXCEPT !.last_state = s, !.last_action = <<a>>,
                                !.q_table[s[1], s[2], a] = Add(@, One)],
         ret |-> action_of(a)]
select_action(pol, env_state, explore, r) ==
    LET s == discretize_state(env_state)
        a == IF explore THEN r ELSE argmax_q(pol.q_table, s)
    IN  [policy |-> [pol EXCEPT !.last_state = s, !.last_action = <<a>>],
         ret |-> action_of(a)]

\* update_q: clear the stored state/action
clear_pending_kept(pol) == pol
clear_pending(pol) == [pol EXCEPT !.last_state = Empty, !.last_action = Empty]

\* update_q
update_q(pol, reward, new_env_state, done) ==
    IF pol.last_state = Empty THEN pol
    ELSE LET s == pol.last_state
             a == pol.last_action[1]
             target == IF done THEN reward
                       ELSE Add(reward, Mul(gamma,
                                max_q(pol.q_table, discretize_state(new_env_state))))
         IN  clear_pending([pol EXCEPT !.q_table[s[1], s[2], a] =
                                           Add(@, Mul(alpha, Sub(target, @)))])

\* what the policy is shown and told
Observations ==
    {[amm_price |-> Make(3, 2, 0), reference_price |-> Make(3, 2, 0), step |-> 0],
     [amm_price |-> Make(31, 20, 0), reference_price |-> Make(3, 2, 0), step |-> 3]}
Rewards == {Num(-1), Num(2)}

InitQ ==
    /\ amm = NewAMM(DEFAULT_FEE)
    /\ call = NoCall
    /\ ncalls = 0
    /\ NoEnv
    /\ policy = SimpleQPolicy
    /\ history = <<>>

SelectAction(env_state, explore, r) ==
    /\ Len(history) < MaxPolicyCalls
    /\ \E sel \in {select_action(policy, env_state, explore, r)} :
           /\ policy' = sel.policy
           /\ history' = Append(history, [op |-> "select_action", done |-> FALSE,
                                          env_state |-> env_state, ret |-> sel.ret,
                                          policy |-> sel.policy])
           /\ call' = [op |-> "select_action", env_state |-> env_state,
                       ret |-> sel.ret, pre |-> policy]
    /\ UNCHANGED <<amm, ncalls, envVars>>

UpdateQ(reward, new_env_state, done) ==
    /\ Len(history) < MaxPolicyCalls
    /\ policy' = update_q(policy, reward, new_env_state, done)
    /\ history' = Append(history, [op |-> "update_q", done |-> done,
                                   policy |-> policy'])
    /\ call' = [op |-> "update_q", reward |-> reward, new_env_state |-> new_env_state,
                done |-> done, pre |-> policy]
    /\ UNCHANGED <<amm, ncalls, envVars>>

NextQ ==
    \/ \E env_state \in Observations, explore \in BOOLEAN, r \in ActionIndices :
           SelectAction(env_state, explore, r)
    \/ \E reward \in Rewards, new_env_state \in Observations, done \in BOOLEAN :
           UpdateQ(reward, new_env_state, done)

SpecQ == InitQ /\ [][NextQ]_vars

----------------------------------------------------------------------------
(* rl_utils.py: _discretize_state on a grid of observations *)

\* price differences of -MaxDiffTicks/200 .. MaxDiffTicks/200, steps 0 .. MaxStepIndex
MaxDiffTicks == 14
MaxStepIndex == 5

GridObservations ==
    {[amm_price |-> Make(300 - k, 200, 0), reference_price |-> Make(3, 2, 0),
      step |-> t] : k \in (-MaxDiffTicks)..MaxDiffTicks, t \in 0..MaxStepIndex}

InitD ==
    /\ amm = NewAMM(DEFAULT_FEE)
    /\ \E env_state \in GridObservations :
           call = [op |-> "observation", env_state |-> env_state]
    /\ ncalls = 0
    /\ NoEnv
    /\ policy = SimpleQPolicy
    /\ history = <<>>

Discretize ==
    /\ call.op = "observation"
    /\ call' = [op |-> "_discretize_state", env_state |-> call.env_state,
                ret |-> discretize_state(call.env_state)]
    /\ UNCHANGED <<amm, ncalls, envVars, polVars>>

NextD == Discretize

SpecD == InitD /\ [][NextD]_vars

----------------------------------------------------------------------------
(* agents.py: RLLiquidityProvider in an environment, episodes as in main.py *)

\* the roster of one RLLiquidityProvider over a seeded pool
InitRL ==
    /\ amm = add_liquidity(NewAMM(Make(1, 2, 0)), Num(200), Num(300))
    /\ agents = <<"RL_LP">>
    /\ reference_prices = <<Make(3, 2, 0), One>>
    /\ script = <<>>
    /\ current_step = 0
    /\ rewards = [n \in {"RL_LP"} |-> Zero]
    /\ total_volume_tokenA = Zero
    /\ total_volume_tokenB = Zero
    /\ running = <<>>
    /\ runs = <<>>
    /\ nresets = 0
    /\ call = NoCall
    /\ ncalls = 0
    /\ policy = SimpleQPolicy
    /\ history = <<>>

\* the pools a tick of that roster is computed on: reserves a tenth of MaxNum
FitsRL(p) ==
    /\ Fits(p)
    /\ Abs(p.reserveA.n) * 10 < MaxNum
    /\ Abs(p.reserveB.n) * 10 < MaxNum

\* step() on a tick of that roster: RLLiquidityProvider.act asks the policy,
\* then the action is applied
RLStep(explore, r) ==
    /\ current_step < num_steps
    /\ FitsRL(amm)
    /\ Len(history) < MaxPolicyCalls
    /\ \E env_state \in {observe(amm, reference_prices[current_step + 1],
                                   current_step)} :
       \E sel \in {select_action(policy, env_state, explore, r)} :
       \E next \in {apply_action(EnvState, agents[1], sel.ret,
                                 env_state.reference_price)} :
           /\ policy' = sel.policy
           /\ history' = Append(history, [op |-> "select_action", done |-> FALSE,
                                          env_state |-> env_state, ret |-> sel.ret,
                                          policy |-> sel.policy])
           /\ amm' = next.amm
           /\ rewards' = next.rewards
           /\ total_volume_tokenA' = next.total_volume_tokenA
           /\ total_volume_tokenB' = next.total_volume_tokenB
           /\ current_step' = current_step + 1
           /\ call' = [op |-> "step", step |-> current_step, pre |-> EnvState,
                       running |-> running, env_state |-> env_state,
                       log |-> <<[name |-> agents[1], action |-> sel.ret,
                                  pre |-> EnvState, post |-> next]>>,
                       ret |-> "True"]
    /\ UNCHANGED <<ncalls, agents, script, reference_prices, running, runs, nresets>>

\* the body of train_rl_agent's loop: update_q on the agent's cumulative
\* reward, the environment as it now is and done = (step >= steps_per_epoch)
TrainUpdate ==
    UpdateQ(rewards[agents[1]],
            observe(amm, reference_prices[IF current_step < num_steps
                                          THEN current_step + 1 ELSE num_steps],
                    current_step),
            current_step >= num_steps)

NextRL ==
    \/ Reset
    \/ RunSimulation
    \/ StepDone
    \/ \E explore \in BOOLEAN, r \in ActionIndices : RLStep(explore, r)
    \/ TrainUpdate

SpecRL == InitRL /\ [][NextRL]_vars

----------------------------------------------------------------------------
(* Properties of the pool, stated on the last call made (SpecAMM) *)

Positive(x) == Lt(Zero, x)
Product(p) == Mul(p.reserveA, p.reserveB)

\* either reserve of the pool is below epsilon
BelowEpsilon(p) == Lt(p.reserveA, EPSILON) \/ Lt(p.reserveB, EPSILON)

\* the last call was a swap that passed both early returns
EffectiveSwap ==
    /\ call.op = "swap"
    /\ Positive(call.amount_in)
    /\ ~BelowEpsilon(call.pre)

\* C1: a swap with amount_in > 0 on a non-degenerate pool with fee_rate = 0
\* leaves reserveA * reserveB unchanged, in either direction.
C1_ZeroFeeSwapKeepsProduct ==
    (EffectiveSwap /\ call.pre.fee_rate = Zero)
        => Product(amm) = Product(call.pre)

C1_Witness ==
    /\ EffectiveSwap
    /\ call.pre.fee_rate = Zero
    /\ call.direction = "sell"
    /\ amm.reserveA # call.pre.reserveA
    /\ Positive(call.ret)

\* C2 (as claimed): a swap with amount_in > 0 on a non-degenerate pool with
\* 0 < fee_rate < 1 leaves K strictly greater than it was.
C2_FeeSwapRaisesK ==
    (EffectiveSwap /\ Positive(call.pre.fee_rate) /\ Lt(call.pre.fee_rate, One))
        => Lt(call.pre.K, amm.K)

\* C3 (as claimed): on the pool made by add_liquidity(1000, 1200) with
\* fee_rate = 0.003, swap(100, "buy") returns
\* 1000 - (1000*1200)/(1200 + 100*0.997), a value within 0.005 of 79.67.
C3Scenario ==
    /\ call.op = "swap"
    /\ call.pre = [reserveA |-> Num(1000), reserveB |-> Num(1200),
                   K |-> Num(1200000), liquidity_shares |-> Num(2200),
                   fee_rate |-> DEFAULT_FEE]
    /\ call.amount_in = Num(100)
    /\ call.direction = "buy"

C3Expected ==
    Sub(Num(1000), Div(Mul(Num(1000), Num(1200)),
                       Add(Num(1200), Mul(Num(100), Make(997, 1000, 0)))))

Within(x, y, tol) == Le(AbsR(Sub(x, y)), tol)

C3_SwapReturnsAbout7967 ==
    C3Scenario => /\ call.ret = C3Expected
                  /\ Within(call.ret, Make(7967, 100, 0), Make(5, 1000, 0))

\* C3 (amended): in that scenario swap returns
\* 1000 - (1000*1200)/(1200 + 100*0.997), a value within 0.005 of 76.71; and
\* every swap with amount_in > 0 on a non-degenerate pool returns
\* reserveA - K/(reserveB + amount_in*(1-fee_rate)) for a buy and
\* reserveB - K/(reserveA + amount_in*(1-fee_rate)) for a sell.
C3_SwapReturnsFormula ==
    /\ C3Scenario => /\ call.ret = C3Expected
                     /\ Within(call.ret, Make(7671, 100, 0), Make(5, 1000, 0))
    /\ EffectiveSwap =>
           LET pre == call.pre
               inp == Mul(call.amount_in, Sub(One, pre.fee_rate))
           IN  call.ret =
                   IF call.direction = "buy"
                   THEN Sub(pre.reserveA, Div(pre.K, Add(pre.reserveB, inp)))
                   ELSE Sub(pre.reserveB, Div(pre.K, Add(pre.reserveA, inp)))

C3_Witness == C3Scenario /\ call.ret = Make(997000, 12997, 0)

C6_RefusedSwapIsNoOp ==
    (call.op = "swap" /\ (Le(call.amount_in, Zero) \/ BelowEpsilon(call.pre)))
        => (call.ret = Zero /\ amm = call.pre)

\* a reserve that is positive but below epsilon, swapped against
C6_Witness ==
    /\ call.op = "swap"
    /\ Positive(call.amount_in)
    /\ Positive(call.pre.reserveA) /\ Positive(call.pre.reserveB)
    /\ BelowEpsilon(call.pre)
    /\ call.ret = Zero

\* the last call was add_liquidity(a, b) on the empty pool
AddedToEmpty ==
    /\ call.op = "add_liquidity"
    /\ call.pre.reserveA = Zero /\ call.pre.reserveB = Zero

\* C7 (as claimed): for every a > 0 and b >= 0, add_liquidity(a, b) on the
\* empty pool is followed by a price of exactly b / a.
C7_PriceAfterFirstDeposit ==
    (AddedToEmpty /\ Positive(call.amount_tokenA))
        => get_price(amm) = Div(call.amount_tokenB, call.amount_tokenA)

\* C7 (amended): that holds for every a >= 1e-12; for 0 < a < 1e-12 the
\* price read is 0.
C7_PriceAfterFirstDepositAboveEpsilon ==
    /\ (AddedToEmpty /\ Le(EPSILON, call.amount_tokenA))
           => get_price(amm) = Div(call.amount_tokenB, call.amount_tokenA)
    /\ (AddedToEmpty /\ Lt(call.amount_tokenA, EPSILON))
           => get_price(amm) = Zero

C7_Witness ==
    /\ AddedToEmpty
    /\ call.amount_tokenA = Num(1000) /\ call.amount_tokenB = Num(1200)
    /\ get_price(amm) = Make(12, 10, 0)

----------------------------------------------------------------------------
(* Properties of the environment, checked on the behaviours of SpecEnv *)

Ticked == call.op = "step" /\ call.ret # "False"

Entries == IF Ticked THEN {call.log[k] : k \in DOMAIN call.log} ELSE {}

WellFormedRemoval(action) ==
    /\ Has(action, "type") /\ action.type = "remove_liquidity"
    /\ Has(action, "amount_tokenA") /\ Has(action, "amount_tokenB")

RemovalAsStated(e) ==
    LET f == Min(e.action.amount_tokenA, e.action.amount_tokenB)
        keep == Sub(One, Min(f, MAX_FRACTION))
        outA == Sub(e.pre.amm.reserveA, e.post.amm.reserveA)
        outB == Sub(e.pre.amm.reserveB, e.post.amm.reserveB)
    IN  Le(Zero, f) =>
            /\ e.post.amm.reserveA = Mul(keep, e.pre.amm.reserveA)
            /\ e.post.amm.reserveB = Mul(keep, e.pre.amm.reserveB)
            /\ e.post.rewards[e.name] =
                   Add(e.pre.rewards[e.name],
                       Add(Mul(outA, call.env_state.reference_price), outB))

C4Scenario(e) ==
    /\ WellFormedRemoval(e.action)
    /\ e.action.amount_tokenA = Make(1, 2, 0) /\ e.action.amount_tokenB = Make(1, 2, 0)
    /\ e.pre.amm.reserveA = Num(200) /\ e.pre.amm.reserveB = Num(300)
    /\ call.env_state.reference_price = Make(3, 2, 0)

\* C4: a removeLiquidity(fractionA, fractionB) action applied by a tick uses
\* f = min(fractionA, fractionB); when f >= 0 the reserves become
\* (1 - min(f, 0.999)) times what they were and the agent's reward grows by
\* outA * referencePrice + outB; removeLiquidity(0.5, 0.5) on (200, 300) at
\* reference price 1.5 adds exactly 300 and leaves (100, 150).
C4_RemovalRewardAndReserves ==
    \A e \in Entries :
        WellFormedRemoval(e.action) =>
            /\ RemovalAsStated(e)
            /\ C4Scenario(e) =>
                   /\ e.post.amm.reserveA = Num(100) /\ e.post.amm.reserveB = Num(150)
                   /\ e.post.rewards[e.name] = Add(e.pre.rewards[e.name], Num(300))

C4_Witness == \E e \in Entries : C4Scenario(e) /\ e.post.amm.reserveA = Num(100)

\* C9 as stated: every completed run_simulation of one environment ends with
\* the ledger of the first.
C9_RunsReproduceLedger ==
    \A i \in DOMAIN runs : runs[i].ledger = runs[1].ledger

\* C9, amended: completed runs of one environment that started from the
\* same pool end with the same ledger.
C9_RunsFromSamePoolReproduceLedger ==
    \A i, j \in DOMAIN runs :
        runs[i].start = runs[j].start => runs[i].ledger = runs[j].ledger

C9_Witness ==
    /\ Len(runs) = 2
    /\ runs[1].start = runs[2].start
    /\ \E n \in DOMAIN runs[1].ledger : runs[1].ledger[n] # Zero

Invalid(action) ==
    /\ Has(action, "type")
    /\ \/ action.type \notin {"trade", "add_liquidity", "remove_liquidity"}
       \/ /\ action.type = "trade"
          /\ Has(action, "amount") => Le(action.amount, Zero)
       \/ /\ action.type = "add_liquidity"
          /\ Has(action, "amount_tokenA") /\ Has(action, "amount_tokenB")
          /\ Le(action.amount_tokenA, Zero) \/ Le(action.amount_tokenB, Zero)
       \/ /\ WellFormedRemoval(action)
          /\ Lt(Min(action.amount_tokenA, action.amount_tokenB), Zero)

\* C10: an action of unknown type, a trade of amount <= 0, an addLiquidity
\* with an amount <= 0 and a removeLiquidity of negative effective fraction
\* raise nothing and leave the pool, the ledger and the volumes as they were;
\* a tick of such actions returns True with the step counter advanced by 1.
C10_InvalidActionsAreNoOps ==
    /\ \A e \in Entries : Invalid(e.action) => e.post = e.pre
    /\ (Ticked /\ \A e \in Entries : Invalid(e.action)) =>
           /\ call.ret = "True"
           /\ current_step = call.step + 1
           /\ EnvState = call.pre

C10_Witness ==
    /\ Ticked /\ \A e \in Entries : Invalid(e.action)
    /\ \E e \in Entries : e.action.type = "add_liquidity"
    /\ \E e \in Entries : e.action.type = "trade"
    /\ ~BelowEpsilon(amm)

----------------------------------------------------------------------------
(* Properties of the policy, checked on the behaviours of SpecQ *)

\* the policy a call found: what the call before it left
Before(k) == IF k = 1 THEN SimpleQPolicy ELSE history[k - 1].policy

SlotEmpty(pol) == pol.last_state = <<>> /\ pol.last_action = <<>>

\* calls k .. k+3 are select, update, select, update(done = True)
Alternation(k) ==
    /\ k + 3 <= Len(history)
    /\ history[k].op = "select_action" /\ history[k + 1].op = "update_q"
    /\ history[k + 2].op = "select_action" /\ history[k + 3].op = "update_q"
    /\ history[k + 3].done

\* C8: after select, update, select, update(terminal) the pending slot is
\* empty and every further update leaves the Q-table as it was; the slot is
\* empty after every update, and an update that finds the slot empty changes
\* nothing.
C8_UpdateClearsSlotThenNoOp ==
    /\ \A k \in DOMAIN history :
           history[k].op = "update_q" =>
               /\ SlotEmpty(history[k].policy)
               /\ SlotEmpty(Before(k)) => history[k].policy = Before(k)
    /\ \A k \in DOMAIN history :
           Alternation(k) =>
               /\ SlotEmpty(history[k + 3].policy)
               /\ \A j \in (k + 4)..Len(history) :
                      (\A i \in (k + 4)..j : history[i].op = "update_q") =>
                          history[j].policy.q_table = history[k + 3].policy.q_table

C8_Witness ==
    /\ Alternation(1)
    /\ Len(history) = 5 /\ history[5].op = "update_q"
    /\ history[4].policy.q_table # SimpleQPolicy.q_table

----------------------------------------------------------------------------
(* Further properties of the environment (SpecEnv) *)

IsTrade(action) == Has(action, "type") /\ action.type = "trade"

TradeAmount(action) == IF Has(action, "amount") THEN action.amount ELSE Zero

TradeDirection(action) == IF Has(action, "direction") THEN action.direction ELSE "buy"

\* C11: a trade applied while the pool is degenerate leaves the pool, the
\* trading agent's reward and both volume counters as they were.
C11_DegenerateTradeIsZeroEffect ==
    \A e \in Entries :
        (IsTrade(e.action) /\ BelowEpsilon(e.pre.amm)) =>
            /\ e.post.amm = e.pre.amm
            /\ e.post.rewards[e.name] = e.pre.rewards[e.name]
            /\ e.post.total_volume_tokenA = e.pre.total_volume_tokenA
            /\ e.post.total_volume_tokenB = e.pre.total_volume_tokenB

\* the last call was the step() that ended a run_simulation call
RunEnded == call.op = "step" /\ call.running # <<>> /\ running = <<>>

\* C12: 0 <= step <= N in every state; a run_simulation call ends only by a
\* step() that finds step = N, after N ticks; a step() made once step >= N
\* returns False, asks no agent and changes neither the pool, the ledger, the
\* volumes nor the step counter.
C12_RunEndsAtLastStep ==
    /\ 0 <= current_step /\ current_step <= num_steps
    /\ RunEnded => (call.ret = "False" /\ current_step = num_steps)
    /\ (call.op = "step" /\ call.step >= num_steps) =>
           /\ call.ret = "False"
           /\ call.log = <<>>
           /\ EnvState = call.pre
           /\ current_step = call.step

----------------------------------------------------------------------------
(* Further properties of the pool (SpecAMM) *)

\* C13: in every state reached from a new pool by add_liquidity,
\* remove_liquidity and swap calls, carried out or refused, K equals
\* reserveA * reserveB.
C13_KIsProductOfReserves == amm.K = Product(amm)

\* a withdrawal from a funded pool, made after another call
C13_Witness ==
    /\ call.op = "remove_liquidity"
    /\ Positive(call.fraction)
    /\ Positive(call.pre.K)
    /\ amm.K # call.pre.K
    /\ ncalls >= 2

----------------------------------------------------------------------------
(* Order of a tick (SpecEnv) *)

\* C14: the observation the agents of a tick receive is made once, before
\* any action is applied, from the pre-tick pool price, the reference price
\* of the step and the step index; the actions are applied in registration
\* order, the k-th on the state the (k-1)-th left.
C14_ObserveFirstThenApplyInOrder ==
    Ticked =>
        /\ call.env_state.amm_price =
               (IF Lt(call.pre.amm.reserveA, EPSILON) THEN Zero
                ELSE Div(call.pre.amm.reserveB, call.pre.amm.reserveA))
        /\ call.env_state.reference_price = reference_prices[call.step + 1]
        /\ call.env_state.step = call.step
        /\ \A k \in DOMAIN call.log :
               /\ call.log[k].name = agents[k]
               /\ call.log[k].pre = (IF k = 1 THEN call.pre ELSE call.log[k - 1].post)
        /\ call.ret = "True" =>
               /\ Len(call.log) = Len(agents)
               /\ EnvState = call.log[Len(call.log)].post

\* a tick of two agents, the first of which moved the price the second
\* trades at, away from the price both were shown
C14_Witness ==
    /\ Ticked /\ call.ret = "True" /\ Len(call.log) = 2
    /\ call.log[1].post.amm # call.log[1].pre.amm
    /\ call.log[2].post.amm # call.log[2].pre.amm
    /\ Positive(call.env_state.amm_price)
    /\ call.env_state.amm_price #
           Div(call.log[2].pre.amm.reserveB, call.log[2].pre.amm.reserveA)

----------------------------------------------------------------------------
(* The policy inside an environment (SpecRL) *)

\* the policy as the last call made on it left it
LastPolicy == IF history = <<>> THEN SimpleQPolicy ELSE history[Len(history)].policy

\* C15: only update_q changes a Q-table entry: select_action leaves the
\* table as it found it, and step(), reset() and run_simulation() leave the
\* policy as the last call made on it left it; once the pending slot is
\* cleared, the table is all a policy carries into the next episode.
C15_OnlyUpdateChangesTable ==
    /\ policy = LastPolicy
    /\ \A k \in DOMAIN history :
           history[k].op = "select_action" =>
               history[k].policy.q_table = Before(k).q_table
    /\ (call.op \in {"reset", "run_simulation"} /\ SlotEmpty(policy)) =>
           policy = [SimpleQPolicy EXCEPT !.q_table = policy.q_table]

\* a second episode begun on a policy whose table the first one changed
C15_Witness ==
    /\ call.op = "reset" /\ nresets = 2
    /\ SlotEmpty(policy)
    /\ policy.q_table # SimpleQPolicy.q_table
    /\ \E k \in DOMAIN history : history[k].op = "select_action"

\* C16: a tick applies one action per registered agent: entry i of the tick
\* is the action the i-th agent returned in this tick, applied once, and no
\* ledger entry but that agent's changes with it.
C16_EachAgentsOwnActionApplied ==
    Ticked =>
        /\ call.ret = "True" => Len(call.log) = Len(agents)
        /\ \A k \in DOMAIN call.log :
               /\ call.log[k].name = agents[k]
               /\ call.log[k].action = script[k][call.step + 1]
               /\ \A n \in DOMAIN rewards :
                      n # agents[k] =>
                          call.log[k].post.rewards[n] = call.log[k].pre.rewards[n]

----------------------------------------------------------------------------
(* Further properties of the policy (SpecQ) *)

\* the table index of a selection: its discretized observation and the
\* index of the action dictionary it returned
Selected(h) ==
    <<discretize_state(h.env_state)[1], discretize_state(h.env_state)[2],
      IF h.ret.type = "none" THEN 0 ELSE IF h.ret.type = "add_liquidity" THEN 1 ELSE 2>>

\* calls k, k+1, k+2 are select, select, update
SelectTwice(k) ==
    /\ k + 2 <= Len(history)
    /\ history[k].op = "select_action" /\ history[k + 1].op = "select_action"
    /\ history[k + 2].op = "update_q"

\* C17: after two selects with no update between them the update that
\* follows changes no table entry but that of the second selection; the
\* first selection is dropped.
C17_SecondSelectReplacesFirst ==
    \A k \in DOMAIN history :
        SelectTwice(k) =>
            \E second \in {Selected(history[k + 1])} :
                \A x \in DOMAIN SimpleQPolicy.q_table :
                    x # second =>
                        history[k + 2].policy.q_table[x] = history[k + 1].policy.q_table[x]

C17_Witness ==
    \E k \in DOMAIN history :
        /\ SelectTwice(k)
        /\ Selected(history[k]) # Selected(history[k + 1])
        /\ history[k + 2].policy.q_table # history[k + 1].policy.q_table

\* the last call was an update_q that found a pending pair
PendingUpdate == call.op = "update_q" /\ call.pre.last_state # <<>>

\* the entry the pending pair of the last update_q names
PendingEntry ==
    <<call.pre.last_state[1], call.pre.last_state[2], call.pre.last_action[1]>>

\* the three action-values of the next observation, in the table as found
NextValues ==
    LET n == discretize_state(call.new_env_state)
    IN  {call.pre.q_table[n[1], n[2], a] : a \in 0..2}

\* reward when terminal, else reward + gamma * the largest of NextValues
Target ==
    IF call.done THEN call.reward
    ELSE Add(call.reward,
             Mul(gamma, CHOOSE m \in NextValues : \A v \in NextValues : Le(v, m)))

\* C18: an update_q with a pending pair (s, a) sets Q[s, a] to
\* Q[s, a] + alpha * (target - Q[s, a]), the target read from the table as
\* it was before the write, and leaves every other entry unchanged.
C18_UpdateRule ==
    PendingUpdate =>
        \E x \in {PendingEntry}, old \in {call.pre.q_table[PendingEntry]} :
            /\ policy.q_table[x] = Add(old, Mul(alpha, Sub(Target, old)))
            /\ \A y \in DOMAIN policy.q_table :
                   y # x => policy.q_table[y] = call.pre.q_table[y]

\* a non-terminal update whose next observation falls in the pending
\* state's own row, with unequal values in that row
C18_Witness ==
    /\ PendingUpdate /\ ~call.done
    /\ discretize_state(call.new_env_state) = call.pre.last_state
    /\ \E v \in NextValues : Lt(call.pre.q_table[PendingEntry], v)
    /\ \E v \in NextValues : Lt(call.pre.q_table[call.pre.last_state[1],
                                                 call.pre.last_state[2], 0], v)

----------------------------------------------------------------------------
(* Discretization (SpecD) *)

\* priceDiff + numPriceBuckets * bucketSize of the observation discretized
Shifted ==
    Add(Sub(call.env_state.reference_price, call.env_state.amm_price),
        Mul(Num(num_price_buckets), Make(2, 100, 0)))

\* b is floor(x / 0.02) clamped into 0 .. numPriceBuckets - 1
ClampedFloor(b, x) ==
    /\ b \in 0..(num_price_buckets - 1)
    /\ b > 0 => Le(Mul(Num(b), Make(2, 100, 0)), x)
    /\ b < num_price_buckets - 1 => Lt(x, Mul(Num(b + 1), Make(2, 100, 0)))

\* C19: the price bucket is floor((priceDiff + numPriceBuckets * 0.02) / 0.02)
\* clamped into [0, numPriceBuckets - 1], the time bucket is
\* step mod numTimeBuckets, and the pair indexes a row of the Q-table.
C19_DiscretizeYieldsTableIndex ==
    call.op = "_discretize_state" =>
        /\ ClampedFloor(call.ret[1], Shifted)
        /\ call.ret[2] = call.env_state.step % num_time_buckets
        /\ call.ret[2] \in 0..(num_time_buckets - 1)
        /\ \A a \in 0..2 : <<call.ret[1], call.ret[2], a>> \in DOMAIN policy.q_table

\* an observation strictly inside a bucket that is not the lowest, at a
\* step beyond the number of time buckets
C19_Witness ==
    /\ call.op = "_discretize_state"
    /\ call.ret[1] > 0
    /\ Lt(Mul(Num(call.ret[1]), Make(2, 100, 0)), Shifted)
    /\ Lt(Shifted, Mul(Num(call.ret[1] + 1), Make(2, 100, 0)))
    /\ call.env_state.step >= num_time_buckets

----------------------------------------------------------------------------
(* Accounting of trades (SpecEnv) *)

\* a trade of a positive amount applied to a pool with both reserves funded
EffectiveTrade(e) ==
    /\ IsTrade(e.action)
    /\ Positive(TradeAmount(e.action))
    /\ ~BelowEpsilon(e.pre.amm)

\* C20: such a trade changes the agent's reward by
\* tokensReceived * referencePrice - amountIn for a buy and by
\* tokensReceived - amountIn * referencePrice for a sell, tokensReceived
\* being what the swap returned; the token-B volume grows by amountIn for a
\* buy, the token-A volume for a sell, and the other volume is unchanged.
C20_TradeRewardAndVolume ==
    \A e \in Entries :
        EffectiveTrade(e) =>
            \E amount_in \in {TradeAmount(e.action)},
               price \in {call.env_state.reference_price},
               tokens \in {swap(e.pre.amm, TradeAmount(e.action),
                                TradeDirection(e.action)).ret} :
                IF TradeDirection(e.action) = "buy"
                THEN /\ e.post.rewards[e.name] =
                            Add(e.pre.rewards[e.name], Sub(Mul(tokens, price), amount_in))
                     /\ e.post.total_volume_tokenB =
                            Add(e.pre.total_volume_tokenB, amount_in)
                     /\ e.post.total_volume_tokenA = e.pre.total_volume_tokenA
                ELSE /\ e.post.rewards[e.name] =
                            Add(e.pre.rewards[e.name], Sub(tokens, Mul(amount_in, price)))
                     /\ e.post.total_volume_tokenA =
                            Add(e.pre.total_volume_tokenA, amount_in)
                     /\ e.post.total_volume_tokenB = e.pre.total_volume_tokenB

\* a sell by an agent whose reward was already non-zero, at a reference
\* price other than 1
C20_Witness ==
    \E e \in Entries :
        /\ EffectiveTrade(e)
        /\ TradeDirection(e.action) = "sell"
        /\ e.pre.rewards[e.name] # Zero
        /\ call.env_state.reference_price # One
        /\ e.post.amm # e.pre.amm

----------------------------------------------------------------------------
(* Frame of the reward ledger (SpecEnv) *)

\* the action agent k returns for the tick about to be taken
OwnAction(k) == script[k][current_step + 1]

\* that action credits or debits the agent who returns it
TouchesLedger(action) ==
    Has(action, "type") /\ action.type \in {"trade", "remove_liquidity"}

\* C21: an agent's ledger entry changes only by reset() (alone or at the
\* start of run_simulation) or in a tick where that agent's own action is a
\* trade or a remove_liquidity; an agent returning none or add_liquidity
\* keeps its reward, and no applied action changes the entry of an agent
\* other than the one it is applied for.
C21_LedgerFrame ==
    [][ /\ \A k \in DOMAIN agents :
               rewards'[agents[k]] # rewards[agents[k]] =>
                   \/ call'.op \in {"reset", "run_simulation"}
                   \/ /\ call'.op = "step"
                      /\ call'.ret # "False"
                      /\ TouchesLedger(OwnAction(k))
        /\ (call'.op = "step" /\ call' # call) =>
               \A k \in DOMAIN call'.log : \A j \in DOMAIN agents :
                   j # k => call'.log[k].post.rewards[agents[j]]
                              = call'.log[k].pre.rewards[agents[j]]
      ]_vars

----------------------------------------------------------------------------
(* Signs of the pool's quantities (SpecAMM) *)

NonNegative(x) == Le(Zero, x)

\* every amount the last call returned: the output of a swap, the two
\* amounts of a removal that was carried out
ReturnedAmounts ==
    IF call.op = "swap" THEN {call.ret}
    ELSE IF call.op = "remove_liquidity" /\ call.ret # None
    THEN {call.ret[1], call.ret[2]}
    ELSE {}

\* C22: from a new pool with fee_rate in [0, 1), after any sequence of
\* add_liquidity with amounts >= 0, remove_liquidity with any fraction and
\* swap with any amount in either direction, both reserves and
\* liquidity_shares are >= 0 and every amount a swap or a removal returned
\* is >= 0.
C22_NonNegativity ==
    /\ NonNegative(amm.reserveA)
    /\ NonNegative(amm.reserveB)
    /\ NonNegative(amm.liquidity_shares)
    /\ \A x \in ReturnedAmounts : NonNegative(x)

\* a removal asked for more than the whole of a funded pool: it pays out
\* positive amounts and leaves positive reserves and shares
C22_Witness ==
    /\ call.op = "remove_liquidity"
    /\ Lt(One, call.fraction)
    /\ ~BelowEpsilon(call.pre)
    /\ Product(call.pre) # Zero
    /\ \A x \in ReturnedAmounts : Positive(x)
    /\ ReturnedAmounts # {}
    /\ Positive(amm.reserveA) /\ Positive(amm.reserveB)
    /\ Positive(amm.liquidity_shares)

=============================================================================
